---- MODULE Spec2Model ----
\* Model of add_files.py: the script that registers PermissionService.swift and
\* PermissionDeniedView.swift in Vivacity.xcodeproj/project.pbxproj.
\*
\* Text is a sequence of one-character strings, indexed from 0 as in Python
\* (element i of the text is s[i + 1]).  A generated identifier is carried as a
\* single element: gen_uuid() returns 24 upper-case hexadecimal digits, and no
\* literal the script searches for begins or ends with such a digit, so a
\* search can neither match inside an identifier nor straddle one.
EXTENDS Integers, Sequences, FiniteSets, TLC

\* ---------------------------------------------------------------- bounds

\* Successive invocations of the script against the same path.
MaxRuns == 2

\* Children a group's list holds before the script runs.
MaxChildren == 1

\* ------------------------------------------------ literals of the script

\* line 16: the guard's marker, also the first file's name
Marker ==
    <<"P", "e", "r", "m", "i", "s", "s", "i", "o", "n", "S", "e", "r", "v", "i", "c", "e", ".",
      "s", "w", "i", "f", "t">>

\* lines 30, 39, 57, 66: the second file's name
DeniedName ==
    <<"P", "e", "r", "m", "i", "s", "s", "i", "o", "n", "D", "e", "n", "i", "e", "d", "V", "i",
      "e", "w", ".", "s", "w", "i", "f", "t">>

\* line 27
EndFileRefMarker ==
    <<"/", "*", " ", "E", "n", "d", " ", "P", "B", "X", "F", "i", "l", "e", "R", "e", "f", "e",
      "r", "e", "n", "c", "e", " ", "s", "e", "c", "t", "i", "o", "n", " ", "*", "/">>

\* line 36
EndBuildFileMarker ==
    <<"/", "*", " ", "E", "n", "d", " ", "P", "B", "X", "B", "u", "i", "l", "d", "F", "i", "l",
      "e", " ", "s", "e", "c", "t", "i", "o", "n", " ", "*", "/">>

\* line 45: the literal head of the pattern
ServicesDecl ==
    <<"/", "*", " ", "S", "e", "r", "v", "i", "c", "e", "s", " ", "*", "/", " ", "=", " ", "{">>

\* line 54
FileScanDecl ==
    <<"/", "*", " ", "F", "i", "l", "e", "S", "c", "a", "n", " ", "*", "/", " ", "=", " ", "{">>

\* line 63
SourcesDecl ==
    <<"/", "*", " ", "S", "o", "u", "r", "c", "e", "s", " ", "*", "/", " ", "=", " ", "{">>

\* lines 45 and 54: the literal after the brace-free run
ChildrenOpen ==
    <<"c", "h", "i", "l", "d", "r", "e", "n", " ", "=", " ", "(">>

\* line 63
FilesOpen ==
    <<"f", "i", "l", "e", "s", " ", "=", " ", "(">>

\* lines 29-30, 38-39: the indentation of a table entry
Tabs2 ==
    <<"\t", "\t">>

\* lines 48, 57, 66: the line break and indentation of a list line
NewlineTabs4 ==
    <<"\n", "\t", "\t", "\t", "\t">>

\* the text between an identifier and the file name
CommentOpen ==
    <<" ", "/", "*", " ">>

\* lines 29-30
FileRefMid ==
    <<" ", "*", "/", " ", "=", " ", "{", "i", "s", "a", " ", "=", " ", "P", "B", "X", "F", "i",
      "l", "e", "R", "e", "f", "e", "r", "e", "n", "c", "e", ";", " ", "l", "a", "s", "t", "K",
      "n", "o", "w", "n", "F", "i", "l", "e", "T", "y", "p", "e", " ", "=", " ", "s", "o", "u",
      "r", "c", "e", "c", "o", "d", "e", ".", "s", "w", "i", "f", "t", ";", " ", "p", "a", "t",
      "h", " ", "=", " ">>

\* lines 29-30
FileRefEnd ==
    <<";", " ", "s", "o", "u", "r", "c", "e", "T", "r", "e", "e", " ", "=", " ", "\"", "<",
      "g", "r", "o", "u", "p", ">", "\"", ";", " ", "}", ";", "\n">>

\* lines 38-39
BuildFileMid ==
    <<" ", "i", "n", " ", "S", "o", "u", "r", "c", "e", "s", " ", "*", "/", " ", "=", " ", "{",
      "i", "s", "a", " ", "=", " ", "P", "B", "X", "B", "u", "i", "l", "d", "F", "i", "l", "e",
      ";", " ", "f", "i", "l", "e", "R", "e", "f", " ", "=", " ">>

\* lines 38-39
BuildFileEnd ==
    <<" ", "*", "/", ";", " ", "}", ";", "\n">>

\* lines 48, 57
ChildEnd ==
    <<" ", "*", "/", ",">>

\* line 66
SourcesEnd ==
    <<" ", "i", "n", " ", "S", "o", "u", "r", "c", "e", "s", " ", "*", "/", ",">>

\* ------------------------------------------------------- Python's strings

Min(S) == CHOOSE x \in S : \A y \in S : x <= y

Max(S) == CHOOSE x \in S : \A y \in S : x >= y

\* s[i : i + len(lit)] == lit
StartsAt(s, i, lit) ==
    /\ i >= 0
    /\ i + Len(lit) <= Len(s)
    /\ lit = <<>> \/ s[i + 1] = lit[1]
    /\ \A j \in 1..Len(lit) : s[i + j] = lit[j]

\* Faulty variant: the test s.startswith(lit) in place of `lit in s`.
ContainsAtStart(s, lit) == StartsAt(s, 0, lit)

\* lit in s
Contains(s, lit) == \E i \in 0..(Len(s) - Len(lit)) : StartsAt(s, i, lit)

\* s.find(lit): the lowest index where lit occurs, -1 when it does not occur.
Find(s, lit) ==
    LET hits == {i \in 0..(Len(s) - Len(lit)) : StartsAt(s, i, lit)}
    IN  IF hits = {} THEN -1 ELSE Min(hits)

\* Faulty variant: a negative index is clamped to 0 instead of counting from the end.
SliceIndexNoWrap(s, k) == IF k < 0 THEN 0 ELSE (IF k > Len(s) THEN Len(s) ELSE k)

\* The bound of a slice: a negative index counts from the end, and an index
\* outside the text is clamped to it.
SliceIndex(s, k) ==
    IF k < 0
      THEN (IF Len(s) + k < 0 THEN 0 ELSE Len(s) + k)
      ELSE (IF k > Len(s) THEN Len(s) ELSE k)

\* s[:k]
Before(s, k) == SubSeq(s, 1, SliceIndex(s, k))

\* s[k:]
From(s, k) == SubSeq(s, SliceIndex(s, k) + 1, Len(s))

\* Faulty variant: the tail is taken from k + 1, losing the character at k.
SpliceOver(s, k, new) == Before(s, k) \o new \o From(s, SliceIndex(s, k) + 1)

\* s[:k] + new + s[k:]
Splice(s, k, new) == Before(s, k) \o new \o From(s, k)

\* The index of the first character of `stop` at or after index `from`, the
\* length of the text when there is none: where a run [^stop]* starting at
\* `from` ends.
RunEnd(s, from, stop) ==
    LET hits == {j \in from..(Len(s) - 1) : s[j + 1] \in stop}
    IN  IF hits = {} THEN Len(s) ELSE Min(hits)

\* Faulty variant: the pattern with a lazy last run, whose match ends with `open`.
SearchEndLazy(s, decl, open) ==
    LET OpenAt(i) ==
            LET a == i + Len(decl)
                b == RunEnd(s, a, {"{", "}"})
            IN  {k \in a..b : StartsAt(s, k, open)}
        starts == {i \in 0..(Len(s) - Len(decl)) :
                      StartsAt(s, i, decl) /\ OpenAt(i) # {}}
    IN  IF starts = {} THEN -1 ELSE Max(OpenAt(Min(starts))) + Len(open)

\* re.search of  decl [^{}]* open [^)]*  in s, as match.end(); -1 for None.
\* The search takes the leftmost start that matches.  From a start, the
\* greedy [^{}]* gives back characters until `open` follows it, so the last
\* `open` of the brace-free run is taken; the greedy [^)]* then runs to the
\* first ")" or to the end of the text.
SearchEnd(s, decl, open) ==
    LET OpenAt(i) ==
            LET a == i + Len(decl)
                b == RunEnd(s, a, {"{", "}"})
            IN  {k \in a..b : StartsAt(s, k, open)}
        starts == {i \in 0..(Len(s) - Len(decl)) :
                      StartsAt(s, i, decl) /\ OpenAt(i) # {}}
    IN  IF starts = {}
          THEN -1
          ELSE RunEnd(s, Max(OpenAt(Min(starts))) + Len(open), {")"})

\* ------------------------------------------------- the inserted fragments

\* One line of new_file_refs (lines 29-30).
FileRefEntry(id, name) ==
    Tabs2 \o <<id>> \o CommentOpen \o name \o FileRefMid \o name \o FileRefEnd

\* One line of new_build_files (lines 38-39).
BuildFileEntry(id, ref, name) ==
    Tabs2 \o <<id>> \o CommentOpen \o name \o BuildFileMid \o <<ref>>
        \o CommentOpen \o name \o BuildFileEnd

\* The line added to a group's children (lines 48, 57).
ChildLine(ref, name) == NewlineTabs4 \o <<ref>> \o CommentOpen \o name \o ChildEnd

\* One line of new_sources (line 66).
SourcesLine(id, name) == NewlineTabs4 \o <<id>> \o CommentOpen \o name \o SourcesEnd

\* Faulty variant: the entry of the second file is left out.
new_file_refs_first(i) == FileRefEntry(i.perm_svc_file_ref, Marker)

\* i is the record of the four identifiers of lines 21-24.
new_file_refs(i) ==
    FileRefEntry(i.perm_svc_file_ref, Marker)
        \o FileRefEntry(i.perm_denied_file_ref, DeniedName)

\* Faulty variant: each build file refers to the other file's reference.
new_build_files_crossed(i) ==
    BuildFileEntry(i.perm_svc_build_file, i.perm_denied_file_ref, Marker)
        \o BuildFileEntry(i.perm_denied_build_file, i.perm_svc_file_ref, DeniedName)

new_build_files(i) ==
    BuildFileEntry(i.perm_svc_build_file, i.perm_svc_file_ref, Marker)
        \o BuildFileEntry(i.perm_denied_build_file, i.perm_denied_file_ref, DeniedName)

new_sources(i) ==
    SourcesLine(i.perm_svc_build_file, Marker)
        \o SourcesLine(i.perm_denied_build_file, DeniedName)

\* ------------------------------------------------------- the five insertions

\* Lines 27-33.  find() returns -1 when the marker is absent and the slices
\* take it as an index from the end.
WithFileRefs(c, i) == Splice(c, Find(c, EndFileRefMarker), new_file_refs(i))

\* Lines 36-42.
WithBuildFiles(c, i) == Splice(c, Find(c, EndBuildFileMarker), new_build_files(i))

\* Lines 45-48, 54-57, 63-67: the text is left alone when the search fails.
WithLine(c, decl, open, line) ==
    LET insert_pos == SearchEnd(c, decl, open)
    IN  IF insert_pos # -1 THEN Splice(c, insert_pos, line) ELSE c

WithServices(c, i) ==
    WithLine(c, ServicesDecl, ChildrenOpen, ChildLine(i.perm_svc_file_ref, Marker))

WithFileScan(c, i) ==
    WithLine(c, FileScanDecl, ChildrenOpen, ChildLine(i.perm_denied_file_ref, DeniedName))

WithSources(c, i) == WithLine(c, SourcesDecl, FilesOpen, new_sources(i))

\* Lines 26-70 in their order: what a run that passes the guard writes.
Patched(c, i) ==
    WithSources(WithFileScan(WithServices(WithBuildFiles(WithFileRefs(c, i), i), i), i), i)

\* ------------------------------------------------------------ file access

\* open(pbx_path, "r").read(): text mode reads with universal newlines, so
\* "\r\n" and a lone "\r" both arrive as "\n".
ReadText(data) ==
    LET Kept(k) == ~(data[k] = "\n" /\ k > 1 /\ data[k - 1] = "\r")
        at == SelectSeq([k \in 1..Len(data) |-> k], Kept)
    IN  [j \in 1..Len(at) |-> IF data[at[j]] = "\r" THEN "\n" ELSE data[at[j]]]

\* open(pbx_path, "w").write(): "\n" is written as os.linesep, which is "\n"
\* on the systems an Xcode project lives on.
WriteText(c) == c

\* ------------------------------------------------------------ identifiers

\* The values uuid4().hex[:24].upper() takes: 24 upper-case hexadecimal
\* digits.  uuid4 is relied on for uniqueness, so the n-th call of gen_uuid
\* made against a manifest returns a value no earlier call returned and the
\* manifest does not hold.
gen_uuid(n) ==
    <<"3F2A9C1D5E7B4A6083C1D2E4", "9B1E4D7A2C6F40518E3A7B9C",
      "C4D8E2F6A1B34C7995E0F1A2", "71A3B5C7D9E04F2186A4C6E8",
      "E8F0A2B4C6D84E1A93B5D7F9", "260C4E8A1F3D4B5792E6A8C0",
      "AD5F7193B2C44E6880F2A4B6", "5C7E9A1B3D5F40728496B8DA",
      "14B6D8FA0C2E4A4686A8CAEC", "8D0F2143658749AB8CDEF012",
      "F1E2D3C4B5A6478895A4B3C2", "6A7B8C9D0E1F4021A3B4C5D6">>[n]

NoIds ==
    [perm_svc_file_ref |-> "", perm_svc_build_file |-> "",
     perm_denied_file_ref |-> "", perm_denied_build_file |-> ""]

\* ------------------------------------------------------------------ state

VARIABLES
    fileExists,   \* whether pbx_path names a file
    fileData,     \* the characters of that file
    issued,       \* how many identifiers gen_uuid has returned so far
    pc,           \* pc[p]: the step invocation p is about to take
    content,      \* content[p]: the script's variable `content`
    ids,          \* ids[p]: the four identifiers of lines 21-24
    out,          \* out[p]: the lines printed so far
    status,       \* status[p]: the exit status, -1 while p runs
    loaded,       \* history: the text p read at line 11
    prev,         \* history: `content` before p's latest insertion step
    found,        \* history: found[p][n], whether p's n-th search succeeded
    written,      \* history: the texts p has written to the file
    log,          \* history: the invocations that wrote the file, in order
    orig          \* history: the file before any invocation

vars ==
    <<fileExists, fileData, issued, pc, content, ids, out, status, loaded, prev,
      found, written, log, orig>>

\* The invocations: run one after the other (Spec), or the first two of them
\* side by side (ConcSpec).
Procs == 1..MaxRuns

Invocations == {1, 2}

\* ---------------------------------------------------- manifests to run on

\* A child a list already holds.
OldChild == NewlineTabs4 \o <<"A", "1">> \o CommentOpen \o <<"a", ".", "c">> \o ChildEnd

\* A child whose comment holds parentheses.
ParenChild ==
    NewlineTabs4 \o <<"A", "2">> \o CommentOpen \o <<"a", "(", "1", ")", ".", "c">> \o ChildEnd

RECURSIVE OldChildren(_)
OldChildren(n) == IF n = 0 THEN <<>> ELSE OldChild \o OldChildren(n - 1)

ListClose == <<"\n", "\t", "\t", "\t", ")", ";", "}", ";", "\n">>

Isa == <<"i", "s", "a", ";", " ">>

\* A group (or build phase) with n children in its list.
ListOf(decl, open, n) == <<"I", "D", " ">> \o decl \o Isa \o open \o OldChildren(n) \o ListClose

\* The shapes the Services group is given.
ServicesShapes ==
    {<<>>}
    \cup {ListOf(ServicesDecl, ChildrenOpen, n) : n \in 0..MaxChildren}
    \cup {\* a declaration that has no list
          ServicesDecl \o Isa \o <<"}", ";", "\n">>,
          \* a declaration without a list, then one with a list
          ServicesDecl \o Isa \o <<"}", ";", "\n">> \o ListOf(ServicesDecl, ChildrenOpen, 0),
          \* two lists in the declaration's brace-free run
          ServicesDecl \o ChildrenOpen \o OldChild \o <<")", ";">>
              \o ChildrenOpen \o <<")", ";", "}", ";", "\n">>,
          \* the end marker of the file-reference table inside the declaration
          ServicesDecl \o EndFileRefMarker \o ChildrenOpen \o ListClose,
          \* a child with parentheses in its comment
          ServicesDecl \o ChildrenOpen \o ParenChild \o ListClose,
          \* a list that is never closed
          ServicesDecl \o Isa \o ChildrenOpen}

FileScanShapes ==
    {<<>>} \cup {ListOf(FileScanDecl, ChildrenOpen, n) : n \in 0..MaxChildren}

SourcesShapes == {<<>>, ListOf(SourcesDecl, FilesOpen, 0)}

\* Nothing; a first line ending in "\r\n"; a comment that names the first
\* file; an entry the file-reference table already holds for the second file.
Heads ==
    {<<>>,
     <<"/", "/", " ", "U", "T", "F", "8", "\r", "\n">>,
     <<"/", "/", " ">> \o Marker \o <<"\n">>,
     FileRefEntry("A3", DeniedName)}

BuildSections == {<<>>, EndBuildFileMarker \o <<"\n">>}

FileRefSections == {<<>>, EndFileRefMarker \o <<"\n">>}

Manifests ==
    {h \o b \o f \o s \o g \o r :
        h \in Heads, b \in BuildSections, f \in FileRefSections,
        s \in ServicesShapes, g \in FileScanShapes, r \in SourcesShapes}

\* Unpatched manifests for the side-by-side invocations.
ConcManifests ==
    {b \o f \o s \o g \o r :
        b \in BuildSections, f \in FileRefSections,
        s \in {<<>>, ListOf(ServicesDecl, ChildrenOpen, 0)},
        g \in {ListOf(FileScanDecl, ChildrenOpen, 0)},
        r \in {<<>>, ListOf(SourcesDecl, FilesOpen, 0)}}

\* ------------------------------------------------------------------- Init

InitProcs ==
    /\ issued = 0
    /\ pc = [p \in Procs |-> "load"]
    /\ content = [p \in Procs |-> <<>>]
    /\ ids = [p \in Procs |-> NoIds]
    /\ out = [p \in Procs |-> <<>>]
    /\ status = [p \in Procs |-> -1]
    /\ loaded = [p \in Procs |-> <<>>]
    /\ prev = [p \in Procs |-> <<>>]
    /\ found = [p \in Procs |-> <<>>]
    /\ written = [p \in Procs |-> <<>>]
    /\ log = <<>>
    /\ orig = [exists |-> fileExists, data |-> fileData]

Init ==
    /\ \/ fileExists = FALSE /\ fileData = <<>>
       \/ fileExists = TRUE /\ fileData \in Manifests
    /\ InitProcs

ConcInit ==
    /\ fileExists = TRUE
    /\ fileData \in ConcManifests
    /\ InitProcs

\* ---------------------------------------------------------------- actions

Say(p, line) == out' = [out EXCEPT ![p] = Append(@, line)]

Exit(p, code) ==
    /\ status' = [status EXCEPT ![p] = code]
    /\ pc' = [pc EXCEPT ![p] = "done"]

Goto(p, label) == pc' = [pc EXCEPT ![p] = label]

Note(p, hit) == found' = [found EXCEPT ![p] = Append(@, hit)]

\* Faulty variant: a missing file is read as an empty one and the run goes on.
LoadOrEmpty(p) ==
    /\ pc[p] = "load"
    /\ content' = [content EXCEPT ![p] = IF fileExists THEN ReadText(fileData) ELSE <<>>]
    /\ loaded' = [loaded EXCEPT ![p] = IF fileExists THEN ReadText(fileData) ELSE <<>>]
    /\ Goto(p, "guard")
    /\ UNCHANGED <<fileExists, fileData, issued, ids, out, status, prev, found, written,
                    log, orig>>

\* Lines 9-14.
Load(p) ==
    /\ pc[p] = "load"
    /\ IF fileExists
         THEN /\ content' = [content EXCEPT ![p] = ReadText(fileData)]
              /\ loaded' = [loaded EXCEPT ![p] = ReadText(fileData)]
              /\ Goto(p, "guard")
              /\ UNCHANGED <<out, status>>
         ELSE /\ Say(p, "Error: project.pbxproj not found")
              /\ Exit(p, 1)
              /\ UNCHANGED <<content, loaded>>
    /\ UNCHANGED <<fileExists, fileData, issued, ids, prev, found, written, log, orig>>

\* Faulty variant: the notice is printed but sys.exit(0) is left out.
GuardNoExit(p) ==
    /\ pc[p] = "guard"
    /\ IF Contains(content[p], Marker)
         THEN Say(p, "Files already added")
         ELSE UNCHANGED out
    /\ Goto(p, "ids")
    /\ UNCHANGED <<fileExists, fileData, issued, content, ids, status, loaded, prev, found,
                    written, log, orig>>

\* Lines 16-18.
Guard(p) ==
    /\ pc[p] = "guard"
    /\ IF Contains(content[p], Marker)
         THEN Say(p, "Files already added") /\ Exit(p, 0)
         ELSE Goto(p, "ids") /\ UNCHANGED <<out, status>>
    /\ UNCHANGED <<fileExists, fileData, issued, content, ids, loaded, prev, found, written,
                    log, orig>>

\* Lines 21-24.
GenerateIds(p) ==
    /\ pc[p] = "ids"
    /\ ids' = [ids EXCEPT ![p] =
                 [perm_svc_file_ref |-> gen_uuid(issued + 1),
                  perm_svc_build_file |-> gen_uuid(issued + 2),
                  perm_denied_file_ref |-> gen_uuid(issued + 3),
                  perm_denied_build_file |-> gen_uuid(issued + 4)]]
    /\ issued' = issued + 4
    /\ Goto(p, "file_refs")
    /\ UNCHANGED <<fileExists, fileData, content, out, status, loaded, prev, found, written,
                    log, orig>>

\* Lines 27-33.
AddFileRefs(p) ==
    /\ pc[p] = "file_refs"
    /\ prev' = [prev EXCEPT ![p] = content[p]]
    /\ content' = [content EXCEPT ![p] = WithFileRefs(content[p], ids[p])]
    /\ Note(p, Find(content[p], EndFileRefMarker) # -1)
    /\ Goto(p, "build_files")
    /\ UNCHANGED <<fileExists, fileData, issued, ids, out, status, loaded, written, log, orig>>

\* Lines 36-42.
AddBuildFiles(p) ==
    /\ pc[p] = "build_files"
    /\ prev' = [prev EXCEPT ![p] = content[p]]
    /\ content' = [content EXCEPT ![p] = WithBuildFiles(content[p], ids[p])]
    /\ Note(p, Find(content[p], EndBuildFileMarker) # -1)
    /\ Goto(p, "services")
    /\ UNCHANGED <<fileExists, fileData, issued, ids, out, status, loaded, written, log, orig>>

\* Faulty variant: a group that is not found ends the run with status 1.
AddToServicesOrAbort(p) ==
    /\ pc[p] = "services"
    /\ prev' = [prev EXCEPT ![p] = content[p]]
    /\ content' = [content EXCEPT ![p] = WithServices(content[p], ids[p])]
    /\ IF SearchEnd(content[p], ServicesDecl, ChildrenOpen) # -1
         THEN /\ Say(p, "Added PermissionService.swift to Services group")
              /\ Note(p, TRUE)
              /\ Goto(p, "filescan")
              /\ UNCHANGED status
         ELSE /\ Say(p, "WARNING: Could not find Services group")
              /\ Note(p, FALSE)
              /\ Exit(p, 1)
    /\ UNCHANGED <<fileExists, fileData, issued, ids, loaded, written, log, orig>>

\* Lines 45-51.
AddToServices(p) ==
    /\ pc[p] = "services"
    /\ prev' = [prev EXCEPT ![p] = content[p]]
    /\ content' = [content EXCEPT ![p] = WithServices(content[p], ids[p])]
    /\ IF SearchEnd(content[p], ServicesDecl, ChildrenOpen) # -1
         THEN Say(p, "Added PermissionService.swift to Services group") /\ Note(p, TRUE)
         ELSE Say(p, "WARNING: Could not find Services group") /\ Note(p, FALSE)
    /\ Goto(p, "filescan")
    /\ UNCHANGED <<fileExists, fileData, issued, ids, status, loaded, written, log, orig>>

\* Lines 54-60.
AddToFileScan(p) ==
    /\ pc[p] = "filescan"
    /\ prev' = [prev EXCEPT ![p] = content[p]]
    /\ content' = [content EXCEPT ![p] = WithFileScan(content[p], ids[p])]
    /\ IF SearchEnd(content[p], FileScanDecl, ChildrenOpen) # -1
         THEN Say(p, "Added PermissionDeniedView.swift to FileScan group") /\ Note(p, TRUE)
         ELSE Say(p, "WARNING: Could not find FileScan group") /\ Note(p, FALSE)
    /\ Goto(p, "sources")
    /\ UNCHANGED <<fileExists, fileData, issued, ids, status, loaded, written, log, orig>>

\* Lines 63-70.
AddToSources(p) ==
    /\ pc[p] = "sources"
    /\ prev' = [prev EXCEPT ![p] = content[p]]
    /\ content' = [content EXCEPT ![p] = WithSources(content[p], ids[p])]
    /\ IF SearchEnd(content[p], SourcesDecl, FilesOpen) # -1
         THEN Say(p, "Added both files to Sources build phase") /\ Note(p, TRUE)
         ELSE Say(p, "WARNING: Could not find Sources build phase") /\ Note(p, FALSE)
    /\ Goto(p, "persist")
    /\ UNCHANGED <<fileExists, fileData, issued, ids, status, loaded, written, log, orig>>

\* Faulty variant: the file is opened for appending.
PersistAppend(p) ==
    /\ pc[p] = "persist"
    /\ fileExists' = TRUE
    /\ fileData' = fileData \o WriteText(content[p])
    /\ written' = [written EXCEPT ![p] = Append(@, WriteText(content[p]))]
    /\ log' = Append(log, p)
    /\ Say(p, "Project updated successfully")
    /\ Exit(p, 0)
    /\ UNCHANGED <<issued, content, ids, loaded, prev, found, orig>>

\* Lines 72-75, and the exit with status 0 at the end of the script.
Persist(p) ==
    /\ pc[p] = "persist"
    /\ fileExists' = TRUE
    /\ fileData' = WriteText(content[p])
    /\ written' = [written EXCEPT ![p] = Append(@, WriteText(content[p]))]
    /\ Say(p, "Project updated successfully")
    /\ Exit(p, 0)
    /\ log' = Append(log, p)
    /\ UNCHANGED <<issued, content, ids, loaded, prev, found, orig>>

\* An invocation starts when the one before it has ended.
Turn(p) == \A q \in 1..(p - 1) : pc[q] = "done"

Next ==
    \E p \in Procs :
        \/ Turn(p) /\ Load(p)
        \/ Turn(p) /\ Guard(p)
        \/ Turn(p) /\ GenerateIds(p)
        \/ Turn(p) /\ AddFileRefs(p)
        \/ Turn(p) /\ AddBuildFiles(p)
        \/ Turn(p) /\ AddToServices(p)
        \/ Turn(p) /\ AddToFileScan(p)
        \/ Turn(p) /\ AddToSources(p)
        \/ Turn(p) /\ Persist(p)

Spec == Init /\ [][Next]_vars

\* Two invocations whose steps interleave; reading the file and writing it are
\* one step each.
ConcNext ==
    \E p \in Invocations :
        \/ Load(p)
        \/ Guard(p)
        \/ GenerateIds(p)
        \/ AddFileRefs(p)
        \/ AddBuildFiles(p)
        \/ AddToServices(p)
        \/ AddToFileScan(p)
        \/ AddToSources(p)
        \/ Persist(p)

ConcSpec == ConcInit /\ [][ConcNext]_vars

\* ----------------------------------------------------------------- claims

Done(p) == pc[p] = "done"

Wrote(p) == written[p] # <<>>

\* Invocation p has just ended: no later one has taken a step.  What p
\* generated, found, printed and wrote does not change after this state.
Ended(p) == Done(p) /\ \A q \in Procs : q > p => pc[q] = "load"

\* How many times lit occurs in s.
Count(s, lit) == Cardinality({i \in 0..(Len(s) - Len(lit)) : StartsAt(s, i, lit)})

\* The file as invocation p found it, when the invocations run one after the
\* other: what the latest earlier writer left, the first file otherwise.
FileBefore(p) ==
    LET earlier == {q \in 1..(p - 1) : Wrote(q)}
    IN  IF earlier = {} THEN orig.data ELSE written[Max(earlier)][1]

\* C1. Idempotence: on a path that holds a file, a second run in succession
\* writes nothing, exits with status 0 and leaves the file as the first run
\* left it.
C1_Idempotence ==
    (orig.exists /\ Done(1) /\ Done(2)) =>
        /\ status[2] = 0
        /\ written[2] = <<>>
        /\ Len(written[1]) <= 1
        /\ fileExists
        /\ (\A q \in Procs : q > 2 => ~Wrote(q)) =>
               fileData = (IF Wrote(1) THEN written[1][1] ELSE orig.data)

\* A second run has ended after a first run that wrote the file.
C1_Witness == Done(1) /\ Done(2) /\ Wrote(1) /\ out[2] = <<"Files already added">>

\* C2. Guard correctness: a run that reads a text holding the marker
\* generates no identifiers, inserts nothing, writes nothing, leaves the file
\* as it found it and exits with status 0.
C2_GuardStops ==
    \A p \in Procs :
        (Done(p) /\ fileExists /\ Count(loaded[p], Marker) > 0) =>
            /\ status[p] = 0
            /\ ids[p] = NoIds
            /\ content[p] = loaded[p]
            /\ found[p] = <<>>
            /\ written[p] = <<>>
            /\ out[p] = <<"Files already added">>
            /\ (\A q \in Procs : q > p => ~Wrote(q)) => fileData = FileBefore(p)

\* The first run has ended on a manifest that names the file in a comment.
C2_Witness == Done(1) /\ Count(orig.data, Marker) = 1 /\ status[1] = 0

\* C6. Fatal path: with no file at the path a run prints the error naming
\* project.pbxproj, exits with status 1, generates no identifiers, inserts
\* nothing and creates no file.
C6_FatalPath ==
    \A p \in Procs :
        (~orig.exists /\ Done(p)) =>
            /\ status[p] = 1
            /\ out[p] = <<"Error: project.pbxproj not found">>
            /\ ids[p] = NoIds
            /\ content[p] = <<>>
            /\ found[p] = <<>>
            /\ written[p] = <<>>
            /\ ~fileExists
            /\ log = <<>>

\* A run has ended where there was no file.
C6_Witness == ~orig.exists /\ Done(1) /\ status[1] = 1

\* s with new put directly before its last character, s being empty or not.
AroundLast(s, new) ==
    IF s = <<>> THEN new ELSE SubSeq(s, 1, Len(s) - 1) \o new \o <<s[Len(s)]>>

DropLast(s) == SubSeq(s, 1, Len(s) - 1)

\* The two lines a pattern step can print.
StepLines ==
    <<{"Added PermissionService.swift to Services group",
       "WARNING: Could not find Services group"},
      {"Added PermissionDeniedView.swift to FileScan group",
       "WARNING: Could not find FileScan group"},
      {"Added both files to Sources build phase",
       "WARNING: Could not find Sources build phase"}>>

\* C10. Unconditional section insertions: when the end marker of the
\* file-reference table (of the build-file table) does not occur in the text,
\* the step prints nothing and does not end the run; the two entries are
\* spliced in directly before the last character of the text, and the run goes
\* on to write the file once and exit with status 0, its only printed lines
\* being the three of the pattern steps and the final one.
C10_UnconditionalSections ==
    \A p \in Procs :
        /\ pc[p] = "build_files" =>
               /\ found[p] = <<Count(prev[p], EndFileRefMarker) > 0>>
               /\ Count(prev[p], EndFileRefMarker) = 0 =>
                      /\ content[p] = AroundLast(prev[p], new_file_refs(ids[p]))
                      /\ out[p] = <<>>
                      /\ status[p] = -1
        /\ pc[p] = "services" =>
               /\ Len(found[p]) = 2
               /\ found[p][2] = (Count(prev[p], EndBuildFileMarker) > 0)
               /\ Count(prev[p], EndBuildFileMarker) = 0 =>
                      /\ content[p] = AroundLast(prev[p], new_build_files(ids[p]))
                      /\ out[p] = <<>>
                      /\ status[p] = -1
        /\ (Done(p) /\ Len(found[p]) = 5 /\ (~found[p][1] \/ ~found[p][2])) =>
               /\ status[p] = 0
               /\ Len(written[p]) = 1
               /\ Count(written[p][1], DropLast(new_file_refs(ids[p]))) = 1
               /\ Count(written[p][1], new_build_files(ids[p])) = 1
               /\ Len(out[p]) = 4
               /\ \A n \in 1..3 : out[p][n] \in StepLines[n]
               /\ out[p][4] = "Project updated successfully"

\* A run has spliced both pairs of entries into a non-empty text that holds
\* neither end marker.
C10_Witness ==
    /\ pc[1] = "services"
    /\ found[1] = <<FALSE, FALSE>>
    /\ loaded[1] # <<>>
    /\ Count(content[1], Marker) = 4

\* No character of cs in s[a:b].
NoneIn(s, a, b, cs) == \A j \in a..(b - 1) : s[j + 1] \notin cs

\* The index at which s first holds lit, -1 when it holds none.
FirstAt(s, lit) ==
    LET at == {e \in 0..(Len(s) - Len(lit)) : StartsAt(s, e, lit)}
    IN  IF at = {} THEN -1 ELSE Min(at)

\* The starts of the `open`s in the brace-free run after a declaration at i.
ListsOf(s, decl, open, i) ==
    {k \in (i + Len(decl))..(Len(s) - Len(open)) :
        StartsAt(s, k, open) /\ NoneIn(s, i + Len(decl), k, {"{", "}"})}

\* The starts of the declarations whose brace-free run holds an `open`.
Located(s, decl, open) ==
    {i \in 0..(Len(s) - Len(decl)) :
        StartsAt(s, i, decl) /\ ListsOf(s, decl, open, i) # {}}

\* `after` is `before` with line inserted at index e.
InsertedAt(before, after, line, e) ==
    /\ e >= 0
    /\ e <= Len(before)
    /\ after = SubSeq(before, 1, e) \o line \o SubSeq(before, e + 1, Len(before))

\* `after` is `before` with line inserted at the end of the span the pattern
\* decl [^{}]* open [^)]* matches: taking the first declaration whose
\* brace-free run holds an `open` and the last `open` of that run, the line
\* comes after everything that follows that `open` up to the first ")", and
\* directly before that ")" (at the end of the text when no ")" follows).
InsertedAtSpanEnd(before, after, decl, open, line) ==
    /\ Count(after, line) = 1
    /\ Located(before, decl, open) # {}
    /\ LET e == FirstAt(after, line)
           i == Min(Located(before, decl, open))
           k == Max(ListsOf(before, decl, open, i))
       IN  /\ InsertedAt(before, after, line, e)
           /\ k + Len(open) <= e
           /\ NoneIn(before, k + Len(open), e, {")"})
           /\ e = Len(before) \/ before[e + 1] = ")"

\* `after` is `before` with line inserted at the start of the list of the
\* first declaration that has one: only white space lies between the list's
\* `open` and the line, and the list's ")" follows the line.
InsertedAtListStart(before, after, decl, open, line) ==
    /\ Count(after, line) = 1
    /\ Located(before, decl, open) # {}
    /\ LET e == FirstAt(after, line)
           i == Min(Located(before, decl, open))
       IN  /\ InsertedAt(before, after, line, e)
           /\ \E k \in ListsOf(before, decl, open, i) :
                  /\ k + Len(open) <= e
                  /\ \A j \in (k + Len(open))..(e - 1) : before[j + 1] \in {" ", "\t", "\n"}
           /\ \E j \in e..(Len(before) - 1) : before[j + 1] = ")"

CutOut(s, lit) ==
    LET e == FirstAt(s, lit)
    IN  IF e = -1 THEN s ELSE SubSeq(s, 1, e) \o SubSeq(s, e + Len(lit) + 1, Len(s))

\* The five anchors, looked for in s.
AllAnchors(s) ==
    /\ Count(s, EndFileRefMarker) > 0
    /\ Count(s, EndBuildFileMarker) > 0
    /\ Located(s, ServicesDecl, ChildrenOpen) # {}
    /\ Located(s, FileScanDecl, ChildrenOpen) # {}
    /\ Located(s, SourcesDecl, FilesOpen) # {}

\* w is base with exactly the run's fragments added: each entry and each line
\* occurs once, the file-reference entries stand directly before the first end
\* marker of their table and the build-file entries before theirs, and taking
\* the fragments out gives back base character for character.
ExactlyInserted(base, w, i) ==
    LET svcLine == ChildLine(i.perm_svc_file_ref, Marker)
        fsLine == ChildLine(i.perm_denied_file_ref, DeniedName)
        parts ==
            {FileRefEntry(i.perm_svc_file_ref, Marker),
             FileRefEntry(i.perm_denied_file_ref, DeniedName),
             BuildFileEntry(i.perm_svc_build_file, i.perm_svc_file_ref, Marker),
             BuildFileEntry(i.perm_denied_build_file, i.perm_denied_file_ref, DeniedName),
             svcLine, fsLine,
             SourcesLine(i.perm_svc_build_file, Marker),
             SourcesLine(i.perm_denied_build_file, DeniedName),
             new_file_refs(i), new_build_files(i), new_sources(i)}
    IN  /\ \A part \in parts : Count(w, part) = 1
        /\ FirstAt(w, EndFileRefMarker) = FirstAt(w, new_file_refs(i)) + Len(new_file_refs(i))
        /\ FirstAt(w, EndBuildFileMarker)
               = FirstAt(w, new_build_files(i)) + Len(new_build_files(i))
        /\ FirstAt(w, svcLine) > FirstAt(w, ServicesDecl)
        /\ FirstAt(w, fsLine) > FirstAt(w, FileScanDecl)
        /\ FirstAt(w, new_sources(i)) > FirstAt(w, SourcesDecl)
        /\ Len(w) = Len(base) + Len(new_file_refs(i)) + Len(new_build_files(i))
                        + Len(svcLine) + Len(fsLine) + Len(new_sources(i))
        /\ CutOut(CutOut(CutOut(CutOut(CutOut(w, new_sources(i)), fsLine), svcLine),
                         new_build_files(i)), new_file_refs(i)) = base

AllFound == <<TRUE, TRUE, TRUE, TRUE, TRUE>>

\* C3 as stated: a manifest that holds the five anchors and not the marker is
\* written back with exactly the fragments added and every other character
\* as it was in the file.
C3_OfEveryManifest ==
    \A p \in Procs :
        (Ended(p) /\ Wrote(p) /\ AllAnchors(FileBefore(p))) =>
            ExactlyInserted(FileBefore(p), written[p][1], ids[p])

\* C3, amended. When the five searches of a run all succeed, each on the text
\* as the steps before it left it, the run writes the text it read with exactly
\* the fragments added: two file-reference entries, two build-file entries, one
\* child line in each group and two lines in the Sources list, each once, and
\* taking them out gives back the text as read.  The text as read is the file
\* with "\r\n" and "\r" turned into "\n"; it is the file itself when the file
\* holds no "\r".
C3_InsertionCompleteness ==
    \A p \in Procs :
        (Ended(p) /\ Wrote(p) /\ found[p] = AllFound) =>
            /\ ExactlyInserted(loaded[p], written[p][1], ids[p])
            /\ Count(FileBefore(p), <<"\r">>) = 0 => loaded[p] = FileBefore(p)
            /\ Count(loaded[p], <<"\r">>) = 0

\* A run has written a manifest in which all five searches succeeded and
\* whose lists held children.
C3_Witness ==
    /\ Done(1)
    /\ Wrote(1)
    /\ found[1] = AllFound
    /\ Count(orig.data, OldChild) >= 2

\* The elements of w that stand directly before, and directly after, the
\* copies of lit.
KeysOf(w, lit) == {w[e] : e \in {x \in 1..(Len(w) - Len(lit)) : StartsAt(w, x, lit)}}

RefsOf(w, lit) ==
    {w[e + Len(lit) + 1] : e \in {x \in 0..(Len(w) - Len(lit) - 1) : StartsAt(w, x, lit)}}

PatternSteps ==
    <<[after |-> "filescan", decl |-> ServicesDecl, open |-> ChildrenOpen,
       added |-> "Added PermissionService.swift to Services group",
       warning |-> "WARNING: Could not find Services group"],
      [after |-> "sources", decl |-> FileScanDecl, open |-> ChildrenOpen,
       added |-> "Added PermissionDeniedView.swift to FileScan group",
       warning |-> "WARNING: Could not find FileScan group"],
      [after |-> "persist", decl |-> SourcesDecl, open |-> FilesOpen,
       added |-> "Added both files to Sources build phase",
       warning |-> "WARNING: Could not find Sources build phase"]>>

\* The text the n-th pattern step inserts.
StepText(n, i) ==
    IF n = 1 THEN ChildLine(i.perm_svc_file_ref, Marker)
    ELSE IF n = 2 THEN ChildLine(i.perm_denied_file_ref, DeniedName)
    ELSE new_sources(i)

\* C5 as stated: the anchors being those of the manifest the run read, each
\* present one gets its success line and its insertion, each absent one its
\* warning.
C5_OfTheManifestRead ==
    \A p \in Procs :
        (Ended(p) /\ ids[p] # NoIds) =>
            /\ status[p] = 0
            /\ Len(written[p]) = 1
            /\ Len(out[p]) = 4
            /\ \A n \in 1..3 :
                   IF Located(loaded[p], PatternSteps[n].decl, PatternSteps[n].open) # {}
                     THEN /\ out[p][n] = PatternSteps[n].added
                          /\ Count(written[p][1], StepText(n, ids[p])) = 1
                     ELSE /\ out[p][n] = PatternSteps[n].warning
                          /\ Count(written[p][1], StepText(n, ids[p])) = 0

\* C5, amended. A run on an unpatched manifest completes, writes the file
\* once and exits with status 0 whichever of the three patterns are found.  A
\* pattern counts as present when it matches the text as the steps before it
\* left it: then its step prints its one success line and makes its
\* insertion, otherwise the step prints its one warning and leaves the text
\* alone; either way the steps after it run.  With only the Services group
\* not found there is one warning and the other four insertions are made.
C5_PartialAnchors ==
    \A p \in Procs :
        /\ \A n \in 1..3 :
               pc[p] = PatternSteps[n].after =>
                   /\ Len(found[p]) = 2 + n
                   /\ Len(out[p]) = n
                   /\ status[p] = -1
                   /\ found[p][2 + n]
                          = (Located(prev[p], PatternSteps[n].decl, PatternSteps[n].open) # {})
                   /\ IF found[p][2 + n]
                        THEN /\ out[p][n] = PatternSteps[n].added
                             /\ Len(content[p]) = Len(prev[p]) + Len(StepText(n, ids[p]))
                             /\ Count(content[p], StepText(n, ids[p])) = 1
                        ELSE /\ out[p][n] = PatternSteps[n].warning
                             /\ content[p] = prev[p]
        /\ (Ended(p) /\ ids[p] # NoIds) =>
               /\ status[p] = 0
               /\ Len(written[p]) = 1
               /\ Len(found[p]) = 5
               /\ Len(out[p]) = 4
               /\ out[p][4] = "Project updated successfully"
               /\ Count(written[p][1], DropLast(new_file_refs(ids[p]))) = 1
               /\ Count(written[p][1], new_build_files(ids[p])) = 1
               /\ \A n \in 1..3 :
                      IF found[p][2 + n]
                        THEN /\ out[p][n] = PatternSteps[n].added
                             /\ Count(written[p][1], StepText(n, ids[p])) = 1
                        ELSE /\ out[p][n] = PatternSteps[n].warning
                             /\ Count(written[p][1], StepText(n, ids[p])) = 0

\* A run has ended in which only the Services group was not found.
C5_Witness ==
    /\ Done(1)
    /\ found[1] = <<TRUE, TRUE, FALSE, TRUE, TRUE>>
    /\ Len(written[1]) = 1
    /\ out[1][1] = "WARNING: Could not find Services group"

\* How many file-reference entries and build-file entries s holds for a name.
FileRefsFor(s, name) == Count(s, CommentOpen \o name \o FileRefMid)

BuildFilesFor(s, name) == Count(s, CommentOpen \o name \o BuildFileMid)

\* C7 as stated: after a run that exits with status 0 the file holds one
\* file-reference entry and one build-file entry for each of the two files.
C7_RegisteredOnce ==
    \A p \in Procs :
        (Ended(p) /\ status[p] = 0) =>
            \A name \in {Marker, DeniedName} :
                FileRefsFor(fileData, name) = 1 /\ BuildFilesFor(fileData, name) = 1

\* C7, amended. After a run that wrote the file, the file holds exactly one
\* file-reference entry and one build-file entry for PermissionService.swift,
\* and exactly one of each for PermissionDeniedView.swift that carries the
\* run's identifiers, beside any the manifest already held for that file.
\* After a run that stopped at the guard the file is as the run found it: it
\* holds the marker string, with or without an entry for either file.
C7_Registration ==
    \A p \in Procs :
        (Ended(p) /\ status[p] = 0) =>
            IF Wrote(p)
              THEN /\ fileData = written[p][1]
                   /\ FileRefsFor(fileData, Marker) = 1
                   /\ BuildFilesFor(fileData, Marker) = 1
                   /\ Count(fileData, <<ids[p].perm_svc_file_ref>> \o CommentOpen \o Marker
                                          \o FileRefMid \o Marker \o DropLast(FileRefEnd)) = 1
                   /\ Count(fileData, <<ids[p].perm_denied_file_ref>> \o CommentOpen
                                          \o DeniedName \o FileRefMid \o DeniedName
                                          \o DropLast(FileRefEnd)) = 1
                   /\ Count(fileData, <<ids[p].perm_denied_build_file>> \o CommentOpen
                                          \o DeniedName \o BuildFileMid) = 1
                   /\ FileRefsFor(fileData, DeniedName) = FileRefsFor(FileBefore(p), DeniedName) + 1
                   /\ BuildFilesFor(fileData, DeniedName)
                          = BuildFilesFor(FileBefore(p), DeniedName) + 1
              ELSE /\ fileData = FileBefore(p)
                   /\ Count(fileData, Marker) > 0

\* A run has written a manifest that held neither end marker, and a run has
\* stopped at the guard on a manifest that holds no entry.
C7_Witness ==
    \/ Ended(1) /\ Wrote(1) /\ found[1] = <<FALSE, FALSE, FALSE, FALSE, FALSE>>
    \/ Ended(1) /\ status[1] = 0 /\ ~Wrote(1) /\ FileRefsFor(fileData, Marker) = 0

\* C9. Last writer wins: when two invocations interleave on an unpatched
\* manifest and both have ended, the file is what the invocation that wrote
\* last makes of the original content; it holds that invocation's four
\* identifiers and one set of entries, and no identifier of the other.
C9_LastWriterWins ==
    (Done(1) /\ Done(2)) =>
        /\ log # <<>>
        /\ LET last == log[Len(log)]
               i == ids[last]
           IN  /\ fileData = WriteText(Patched(ReadText(orig.data), i))
               /\ fileData = written[last][1]
               /\ \A name \in {Marker, DeniedName} :
                      FileRefsFor(fileData, name) = 1 /\ BuildFilesFor(fileData, name) = 1
               /\ \A id \in {i.perm_svc_file_ref, i.perm_svc_build_file,
                             i.perm_denied_file_ref, i.perm_denied_build_file} :
                      Count(fileData, <<id>>) >= 1
               /\ \A q \in Invocations \ {last} :
                      \A id \in {ids[q].perm_svc_file_ref, ids[q].perm_svc_build_file,
                                 ids[q].perm_denied_file_ref, ids[q].perm_denied_build_file} :
                          Count(fileData, <<id>>) = 0

\* Both invocations read the original manifest; the second wrote first and
\* the first wrote last.
C9_Witness == Done(1) /\ Done(2) /\ log = <<2, 1>>

====
